---------------------------- MODULE Spec2Model ----------------------------
(***************************************************************************)
(* Order placement and fulfilment engine of desafio-escribo-supabase.      *)
(*                                                                         *)
(* The program is a PostgreSQL schema (supabase/migrations/0001_init.sql)  *)
(* with two RPC functions, place_order and set_order_status, and three     *)
(* triggers.  Every RPC call is one transaction at the default isolation   *)
(* level READ COMMITTED: each statement of the function body reads the     *)
(* rows committed when the statement starts (plus the transaction's own    *)
(* writes), an UPDATE takes the row lock and evaluates its WHERE clause on  *)
(* the latest committed version of the row, waiting for a concurrent       *)
(* holder of the lock, and the writes of a transaction become visible to   *)
(* the others together at its commit, or never when it raises.             *)
(*                                                                         *)
(* The variables products, customers, orders, order_items and mail_queue   *)
(* hold the COMMITTED rows, which is what an observer can see.  The        *)
(* uncommitted writes of a call in flight are kept in the call's record.   *)
(* Identifiers and timestamps (created_at, updated_at, placed_at) carry no *)
(* behaviour and are left out of the rows.                                 *)
(*                                                                         *)
(* The two edge functions of functions/send-order-confirmation/index.ts    *)
(* are modelled next to the schema: the drain of mail_queue, whose         *)
(* invocations run with the service role and interleave at every await,    *)
(* and export-order-csv, which reads the line items of an order under the  *)
(* row level security of the caller.                                       *)
(***************************************************************************)
EXTENDS Integers, Sequences, FiniteSets, TLC

\* ------------------------------------------------------------------------
\* Bounds of the model
\* ------------------------------------------------------------------------
MaxStock == 2       \* initial stock of a product is drawn from 0..MaxStock
MaxQty == 2         \* a requested quantity is drawn from 0..MaxQty
MaxItems == 2       \* a place_order item list has at most MaxItems items
MaxCalls == 2       \* set_order_status is called at most MaxCalls times
MaxRows == 3        \* direct line-item statements keep at most MaxRows rows
JobsAtStart == 2    \* pending jobs in the queue two overlapping drains work on
MaxSends == 2       \* the calls of sendEmail for a job are counted up to MaxSends

\* ------------------------------------------------------------------------
\* Identities
\* ------------------------------------------------------------------------
ProductIds == {"A", "B"}            \* rows of public.products
MissingProduct == "X"               \* a product_id with no row
RequestedProducts == ProductIds \cup {MissingProduct}
CustomerIds == {"c1", "c2"}         \* rows of public.customers
UserIds == {"u1", "u2", "u3"}       \* auth.users; u3 has no customer row
NULL == "null"                      \* SQL NULL (auth.uid() of a caller without user)
Callers == UserIds \cup {NULL}
Placers == {"t1", "t2"}             \* concurrent place_order calls
Setters == {"s1", "s2"}             \* sessions calling set_order_status
NoTx == "none"
MissingOrder == 0                   \* an order id with no row

order_status == {"pending", "paid", "shipped", "delivered", "canceled"}

VARIABLES
  products,     \* [ProductIds -> [price_cents, stock, active]]
  lock,         \* [ProductIds -> Placers \cup {NoTx}]: holder of the row lock
  stock0,       \* [ProductIds -> Nat]: the stock each product started with
  customers,    \* [CustomerIds -> [user_id, email, full_name]]
  orders,       \* order id -> [customer_id, status, total_cents]
  order_items,  \* sequence of [order_id, product_id, quantity, unit_price_cents]
  mail_queue,   \* sequence of [order_id, to_email, customer_name, status]
  po,           \* [Placers -> state of the place_order call]
  ss,           \* [Setters -> state of the set_order_status call]
  calls,        \* number of set_order_status calls begun
  into_paid,    \* order id -> number of committed changes of its status
                \* into paid from another status
  dr,           \* [Drains -> state of the invocation of the queue drain]
  sends,        \* job id -> number of calls of sendEmail made for the job
  export        \* the last request to export-order-csv and its response

vars == <<products, lock, stock0, customers, orders, order_items, mail_queue,
          po, ss, calls, into_paid, dr, sends, export>>

\* ------------------------------------------------------------------------
\* compute_order_total: coalesce(sum(quantity * unit_price_cents), 0) over
\* the rows of the given order in a table of line items
\* ------------------------------------------------------------------------
RECURSIVE compute_order_total(_, _)
compute_order_total(rows, p_order_id) ==
  IF rows = <<>> THEN 0
  ELSE LET oi == Head(rows)
           rest == compute_order_total(Tail(rows), p_order_id)
       IN IF oi.order_id = p_order_id
            THEN oi.quantity * oi.unit_price_cents + rest
            ELSE rest

\* sum of the quantities of the line items of one product in a table
RECURSIVE QuantityOf(_, _)
QuantityOf(rows, p) ==
  IF rows = <<>> THEN 0
  ELSE (IF Head(rows).product_id = p THEN Head(rows).quantity ELSE 0)
       + QuantityOf(Tail(rows), p)

\* ------------------------------------------------------------------------
\* place_order(items)
\* ------------------------------------------------------------------------
Items == [product_id : RequestedProducts, quantity : 0..MaxQty]

RECURSIVE SeqsUpTo(_, _)
SeqsUpTo(S, n) ==
  IF n = 0 THEN {<<>>}
  ELSE LET shorter == SeqsUpTo(S, n - 1)
       IN shorter \cup {Append(s, x) : s \in {q \in shorter : Len(q) = n - 1}, x \in S}

ItemLists == SeqsUpTo(Items, MaxItems)

NoDelta == [p \in ProductIds |-> 0]

IdlePlacer ==
  [pc |-> "idle", customer_id |-> NULL, order_id |-> 0, items |-> <<>>,
   i |-> 0, v_price |-> 0, rows |-> <<>>, total_cents |-> 0,
   delta |-> NoDelta, result |-> "none", overlap |-> FALSE,
   stale |-> FALSE]

\* select c.id from customers c where c.user_id = v_user_id
CustomerOf(v_user_id) ==
  IF \E c \in CustomerIds : customers[c].user_id = v_user_id
    THEN CHOOSE c \in CustomerIds : customers[c].user_id = v_user_id
    ELSE NULL

\* gen_random_uuid(): an identifier no row and no call in flight uses
UsedOrderIds == DOMAIN orders \cup {po[t].order_id : t \in Placers}
NewOrderId == CHOOSE n \in 1..(Cardinality(UsedOrderIds) + 1) : n \notin UsedOrderIds

\* raise exception: the transaction rolls back, its uncommitted rows and
\* stock decrements are discarded and its row locks are released
StockAfterLostRollback(p, t) == products[p].stock - po[t].delta[p]
StockAfterRollback(p, t) == products[p].stock

Raise(t, err) ==
  /\ po' = [po EXCEPT ![t] = [@ EXCEPT !.pc = "done", !.result = err,
                                       !.rows = <<>>, !.total_cents = 0,
                                       !.order_id = 0, !.delta = NoDelta]]
  /\ lock' = [p \in ProductIds |-> IF lock[p] = t THEN NoTx ELSE lock[p]]
  /\ products' = [p \in ProductIds |->
                    [products[p] EXCEPT !.stock = StockAfterRollback(p, t)]]
  /\ UNCHANGED <<stock0, customers, orders, order_items, mail_queue,
                 ss, calls, into_paid, dr, sends, export>>

\* some of the calls ts has begun and has neither committed nor raised
InFlight(ts) == \E t \in ts : po[t].pc \in {"read", "update", "commit"}

\* lines 166-175: the caller, its customer row, the new order
PlaceOrderBegin(t, v_user_id, items) ==
  /\ po[t].pc = "idle"
  /\ IF v_user_id = NULL THEN Raise(t, "Unauthenticated")
     ELSE IF CustomerOf(v_user_id) = NULL THEN Raise(t, "CustomerNotFound")
     ELSE /\ po' = [po EXCEPT ![t] =
                      [@ EXCEPT !.pc = IF items = <<>> THEN "commit" ELSE "read",
                                !.customer_id = CustomerOf(v_user_id),
                                !.order_id = NewOrderId,
                                !.items = items, !.i = 1,
                                !.overlap = InFlight(Placers \ {t})]]
          /\ UNCHANGED <<products, lock, stock0, customers, orders,
                         order_items, mail_queue, ss, calls, into_paid,
                         dr, sends, export>>

\* lines 180-193: the quantity check and the read of the price of an
\* active product
ActiveProduct(v_product_id) ==
  v_product_id \in ProductIds /\ products[v_product_id].active

\* lines 183-193: the checks the loop body makes on an item before it
\* touches the stock, in their order
ItemErrorProductFirst(v_item) ==
  IF ~ActiveProduct(v_item.product_id) THEN "ProductUnavailable"
  ELSE IF v_item.quantity <= 0 THEN "InvalidQuantity"
  ELSE "none"
ItemError(v_item) ==
  IF v_item.quantity <= 0 THEN "InvalidQuantity"
  ELSE IF ~ActiveProduct(v_item.product_id) THEN "ProductUnavailable"
  ELSE "none"

PlaceOrderRead(t) ==
  /\ po[t].pc = "read"
  /\ LET v_item == po[t].items[po[t].i]
     IN IF ItemError(v_item) # "none" THEN Raise(t, ItemError(v_item))
        ELSE /\ po' = [po EXCEPT ![t] =
                        [@ EXCEPT !.pc = "update",
                                  !.v_price =
                                     products[v_item.product_id].price_cents]]
             /\ UNCHANGED <<products, lock, stock0, customers, orders,
                            order_items, mail_queue, ss, calls, into_paid,
                            dr, sends, export>>

\* lines 196-198: the row of the product as the call's UPDATE sees it: the
\* latest committed version less the call's own uncommitted decrements
CurrentStock(t, p) == products[p].stock - po[t].delta[p]
StockGuardAlways(stock, v_qty) == TRUE
StockGuard(stock, v_qty) == stock >= v_qty
NewStockLessOne(stock, v_qty) == stock - 1
NewStock(stock, v_qty) == stock - v_qty
\* line 51: check (stock >= 0)
StockCheck(stock) == stock >= 0

\* lines 204-205: the unit price of the new line item is v_price, the price
\* the SELECT at lines 187-189 read
UnitPriceAtInsert(t, p) == products[p].price_cents
UnitPrice(t, p) == po[t].v_price

\* lines 196-206: the conditional decrement, the line item and the trigger
\* trg_order_items_total_aiud that recomputes the total of the new order
PlaceOrderUpdate(t) ==
  /\ po[t].pc = "update"
  /\ LET v_item == po[t].items[po[t].i]
         p == v_item.product_id
         v_qty == v_item.quantity
         row == [order_id |-> po[t].order_id, product_id |-> p,
                 quantity |-> v_qty, unit_price_cents |-> UnitPrice(t, p)]
         rows == Append(po[t].rows, row)
     IN /\ lock[p] \in {NoTx, t}
        /\ IF ~StockGuard(CurrentStock(t, p), v_qty)
             THEN Raise(t, "InsufficientStock")
           ELSE IF ~StockCheck(NewStock(CurrentStock(t, p), v_qty))
             THEN Raise(t, "CheckViolation")
           ELSE /\ lock' = [lock EXCEPT ![p] = t]
                /\ po' = [po EXCEPT ![t] =
                     [@ EXCEPT !.delta[p] = CurrentStock(t, p)
                                   - NewStock(CurrentStock(t, p), v_qty)
                                   + po[t].delta[p],
                               !.rows = rows,
                               !.total_cents =
                                  compute_order_total(order_items \o rows,
                                                      po[t].order_id),
                               !.i = @ + 1,
                               !.stale = @ \/ ~products[p].active,
                               !.pc = IF po[t].i = Len(po[t].items)
                                        THEN "commit" ELSE "read"]]
                /\ UNCHANGED <<products, stock0, customers, orders,
                               order_items, mail_queue, ss, calls, into_paid,
                               dr, sends, export>>

\* line 208 and the end of the transaction: the writes become visible
PlaceOrderCommit(t) ==
  /\ po[t].pc = "commit"
  /\ products' = [p \in ProductIds |->
        [products[p] EXCEPT !.stock = products[p].stock - po[t].delta[p]]]
  /\ orders' = [o \in DOMAIN orders \cup {po[t].order_id} |->
        IF o = po[t].order_id
          THEN [customer_id |-> po[t].customer_id, status |-> "pending",
                total_cents |-> po[t].total_cents]
          ELSE orders[o]]
  /\ order_items' = order_items \o po[t].rows
  /\ lock' = [p \in ProductIds |-> IF lock[p] = t THEN NoTx ELSE lock[p]]
  /\ po' = [po EXCEPT ![t] = [@ EXCEPT !.pc = "done", !.result = "ok",
                                       !.delta = NoDelta]]
  /\ into_paid' = [o \in DOMAIN orders' |->
        IF o \in DOMAIN orders THEN into_paid[o] ELSE 0]
  /\ UNCHANGED <<stock0, customers, mail_queue, ss, calls,
                 dr, sends, export>>

\* The call t waits for the row lock held by another call
WaitsFor(t) ==
  IF po[t].pc = "update"
     /\ lock[po[t].items[po[t].i].product_id] \notin {NoTx, t}
    THEN lock[po[t].items[po[t].i].product_id]
    ELSE NoTx

RECURSIVE WaitChain(_, _, _)
WaitChain(t, target, n) ==
  /\ n > 0
  /\ WaitsFor(t) # NoTx
  /\ \/ WaitsFor(t) = target
     \/ WaitChain(WaitsFor(t), target, n - 1)

\* PostgreSQL's deadlock detector: a call in a cycle of lock waits is
\* aborted with an error
PlaceOrderDeadlock(t) ==
  /\ WaitChain(t, t, Cardinality(Placers))
  /\ Raise(t, "DeadlockDetected")

\* ------------------------------------------------------------------------
\* set_order_status(p_order_id, p_next)
\* ------------------------------------------------------------------------
IdleSetter ==
  [pc |-> "idle", v_user |-> NULL, p_order_id |-> MissingOrder,
   p_next |-> "pending", v_curr |-> NULL, old_status |-> NULL,
   result |-> "none", call_no |-> 0]

\* line 229: v_user is not null and exists(select 1 from customers c
\*           where c.id = v_cust and c.user_id = v_user)
IsOwner(v_user, v_cust) ==
  v_user # NULL /\ \E c \in CustomerIds : c = v_cust /\ customers[c].user_id = v_user

\* line 230
OwnerForbiddenBoth(p_next, v_curr) == p_next # "canceled" /\ v_curr # "pending"
OwnerForbiddenByStatus(p_next, v_curr) == v_curr # "pending"
OwnerForbidden(p_next, v_curr) == p_next # "canceled" \/ v_curr # "pending"

\* lines 226-233: the read of the order and the check of the caller
SetOrderStatusBegin(s, v_user, p_order_id, p_next) ==
  /\ ss[s].pc \in {"idle", "done"}
  /\ calls < MaxCalls
  /\ calls' = calls + 1
  /\ LET call == [IdleSetter EXCEPT !.v_user = v_user,
                                    !.p_order_id = p_order_id,
                                    !.p_next = p_next,
                                    !.call_no = calls + 1]
     IN IF p_order_id \notin DOMAIN orders
          THEN ss' = [ss EXCEPT ![s] = [call EXCEPT !.pc = "done",
                                                     !.result = "OrderNotFound"]]
        ELSE LET v_curr == orders[p_order_id].status
                 v_cust == orders[p_order_id].customer_id
             IN IF IsOwner(v_user, v_cust) /\ OwnerForbidden(p_next, v_curr)
                  THEN ss' = [ss EXCEPT ![s] =
                                [call EXCEPT !.pc = "done", !.v_curr = v_curr,
                                             !.result = "Forbidden"]]
                  ELSE ss' = [ss EXCEPT ![s] =
                                [call EXCEPT !.pc = "update", !.v_curr = v_curr]]
  /\ UNCHANGED <<products, lock, stock0, customers, orders, order_items,
                 mail_queue, po, into_paid,
                 dr, sends, export>>

\* line 264: new.status = 'paid' and old.status is distinct from 'paid'
EnqueueOnEveryPaid(new_status, old_status) == new_status = "paid"
EnqueueOnFirstPaidOnly(new_status, old_status) ==
  new_status = "paid" /\ old_status = "pending"
EnqueueCondition(new_status, old_status) ==
  new_status = "paid" /\ old_status # "paid"

\* lines 265-268: the row enqueue_order_confirmation inserts
ConfirmationJob(new_id, customer_id) ==
  [order_id |-> new_id, to_email |-> customers[customer_id].email,
   customer_name |-> customers[customer_id].full_name, status |-> "pending",
   processed_at |-> NULL]

\* line 235: the unconditional UPDATE of the order, the trigger
\* trg_orders_paid_enqueue it fires, and the commit of the call.  The UPDATE
\* works on the latest committed version of the row, which may differ from
\* the one read at line 226.
NewStatusAlongGraph(p_next, old_status) ==
  IF <<old_status, p_next>> \in
       {<<"pending", "paid">>, <<"paid", "shipped">>,
        <<"shipped", "delivered">>, <<"pending", "canceled">>}
    THEN p_next ELSE old_status
NewStatus(p_next, old_status) == p_next

\* line 235: where id = p_order_id
UpdatedOrdersNoWhere(p_order_id) == DOMAIN orders
UpdatedOrders(p_order_id) == {p_order_id}

SetOrderStatusUpdate(s) ==
  /\ ss[s].pc = "update"
  /\ LET o == ss[s].p_order_id
         old == orders[o]
         new == [old EXCEPT !.status = NewStatus(ss[s].p_next, old.status)]
     IN /\ orders' = [id \in DOMAIN orders |->
                        IF id \in UpdatedOrders(o)
                          THEN [orders[id] EXCEPT !.status = new.status]
                          ELSE orders[id]]
        /\ mail_queue' =
             IF EnqueueCondition(new.status, old.status)
               THEN Append(mail_queue, ConfirmationJob(o, new.customer_id))
               ELSE mail_queue
        /\ into_paid' = [into_paid EXCEPT ![o] =
             IF orders[o].status # "paid" /\ orders'[o].status = "paid"
               THEN @ + 1 ELSE @]
        /\ ss' = [ss EXCEPT ![s] = [@ EXCEPT !.pc = "done", !.result = "ok",
                                             !.old_status = old.status]]
  /\ UNCHANGED <<products, lock, stock0, customers, order_items, po, calls,
                 dr, sends, export>>

\* A customer edits the contact fields of its own row (policy
\* customers_update_own, lines 306-307)
Contacts(c) ==
  IF c = "c1" THEN {[email |-> "a@old", full_name |-> "Ana"],
                    [email |-> "a@new", full_name |-> "Ana Maria"]}
              ELSE {[email |-> "b@old", full_name |-> "Bia"]}

UpdateCustomer(c, contact) ==
  /\ contact # [email |-> customers[c].email, full_name |-> customers[c].full_name]
  /\ customers' = [customers EXCEPT ![c].email = contact.email,
                                    ![c].full_name = contact.full_name]
  /\ UNCHANGED <<products, lock, stock0, orders, order_items, mail_queue,
                 po, ss, calls, into_paid,
                 dr, sends, export>>

\* ------------------------------------------------------------------------
\* Direct statements on public.order_items (a session that bypasses row
\* level security), each followed by the row trigger
\* trg_order_items_total_aiud (lines 130-144)
\* ------------------------------------------------------------------------
\* update orders o set total_cents = compute_order_total(o.id)
\*  where o.id = coalesce(new.order_id, old.order_id)
update_order_total(tbl, rows, order_id) ==
  [o \in DOMAIN tbl |->
     IF o = order_id
       THEN [tbl[o] EXCEPT !.total_cents = compute_order_total(rows, o)]
       ELSE tbl[o]]

RemoveAt(rows, k) ==
  [j \in 1..(Len(rows) - 1) |-> IF j < k THEN rows[j] ELSE rows[j + 1]]

ItemFrame == UNCHANGED <<products, lock, stock0, customers, mail_queue,
                         po, ss, calls, into_paid,
                         dr, sends, export>>

InsertOrderItem(o, p, q) ==
  /\ Len(order_items) < MaxRows
  /\ o \in DOMAIN orders
  /\ LET new == [order_id |-> o, product_id |-> p, quantity |-> q,
                 unit_price_cents |-> products[p].price_cents]
     IN /\ order_items' = Append(order_items, new)
        /\ orders' = update_order_total(orders, order_items', new.order_id)
  /\ ItemFrame

UpdateOrderItem(k, o, q) ==
  /\ k \in 1..Len(order_items)
  /\ o \in DOMAIN orders
  /\ LET old == order_items[k]
         new == [old EXCEPT !.order_id = o, !.quantity = q]
     IN /\ new # old
        /\ order_items' = [order_items EXCEPT ![k] = new]
        /\ orders' = update_order_total(orders, order_items', new.order_id)
  /\ ItemFrame

DeleteOrderItem(k) ==
  /\ k \in 1..Len(order_items)
  /\ LET old == order_items[k]
     IN /\ order_items' = RemoveAt(order_items, k)
        /\ orders' = update_order_total(orders, order_items', old.order_id)
  /\ ItemFrame

\* ------------------------------------------------------------------------
\* Maintenance of the catalogue by the service role, which row level
\* security does not bind: single UPDATE statements on a product row.  Each
\* waits for the row lock a place_order call holds and commits at once.
\* ------------------------------------------------------------------------
Prices == {300, 500}

\* update products set price_cents = price where id = p
SetProductPrice(p, price) ==
  /\ lock[p] = NoTx
  /\ price # products[p].price_cents
  /\ products' = [products EXCEPT ![p].price_cents = price]
  /\ UNCHANGED <<lock, stock0, customers, orders, order_items, mail_queue,
                 po, ss, calls, into_paid, dr, sends, export>>

\* update products set active = false where id = p
DeactivateProduct(p) ==
  /\ lock[p] = NoTx
  /\ products[p].active
  /\ products' = [products EXCEPT ![p].active = FALSE]
  /\ UNCHANGED <<lock, stock0, customers, orders, order_items, mail_queue,
                 po, ss, calls, into_paid, dr, sends, export>>

\* ------------------------------------------------------------------------
\* The drain of mail_queue (send-order-confirmation).  An invocation reads
\* a batch of pending jobs, then for each job of the batch calls sendEmail
\* and writes the job's status.  Every await is a point where another
\* invocation can run.  A job's id is its position in mail_queue.
\* ------------------------------------------------------------------------
Drains == {"d1", "d2"}
BatchLimit == 10

IdleDrain ==
  [pc |-> "idle", pendentes |-> <<>>, k |-> 0, delivered |-> FALSE,
   response |-> "none"]

\* line 44: .eq("status", "pending")
QueuedJobs == {j \in DOMAIN mail_queue : mail_queue[j].status = "queued"}
PendingJobs == {j \in DOMAIN mail_queue : mail_queue[j].status = "pending"}

\* the results a query for the pending jobs with limit(10) and no ORDER BY
\* can have: any BatchLimit of them, or all when there are fewer
\* the subsets of S of n elements
RECURSIVE SubsetsOfSize(_, _)
SubsetsOfSize(S, n) ==
  IF n = 0 THEN {{}}
  ELSE IF S = {} THEN {}
  ELSE LET x == CHOOSE y \in S : TRUE
       IN SubsetsOfSize(S \ {x}, n)
            \cup {T \cup {x} : T \in SubsetsOfSize(S \ {x}, n - 1)}

Batches ==
  IF Cardinality(PendingJobs) <= BatchLimit THEN {PendingJobs}
  ELSE {PendingJobs \ rest :
          rest \in SubsetsOfSize(PendingJobs,
                                 Cardinality(PendingJobs) - BatchLimit)}

\* the rows of a result, by ascending id
RECURSIVE Ascending(_)
Ascending(S) ==
  IF S = {} THEN <<>>
  ELSE LET m == CHOOSE x \in S : \A y \in S : x <= y
       IN <<m>> \o Ascending(S \ {m})

DrainFrame == UNCHANGED <<products, lock, stock0, customers, orders,
                          order_items, po, ss, calls, into_paid, export>>

\* lines 41-49: the query and the early return on an empty result
DrainSelect(d, batch) ==
  /\ dr[d].pc \in {"idle", "done"}
  /\ batch \in Batches
  /\ dr' = [dr EXCEPT ![d] =
        IF batch = {}
          THEN [IdleDrain EXCEPT !.pc = "done",
                                 !.response = "Nenhum e-mail pendente."]
          ELSE [IdleDrain EXCEPT !.pc = "send",
                                 !.pendentes = Ascending(batch), !.k = 1]]
  /\ UNCHANGED <<mail_queue, sends>>
  /\ DrainFrame

SendsOf(j) == IF j \in DOMAIN sends THEN sends[j] ELSE 0
\* the calls of sendEmail are counted up to MaxSends
CountSend(n) == IF n < MaxSends THEN n + 1 ELSE n

\* line 63: sendEmail returns (ok) or throws
DrainSend(d, ok) ==
  /\ dr[d].pc = "send"
  /\ LET row == dr[d].pendentes[dr[d].k]
     IN sends' = [j \in DOMAIN mail_queue |->
                    IF j = row THEN CountSend(SendsOf(j)) ELSE SendsOf(j)]
  /\ dr' = [dr EXCEPT ![d] = [@ EXCEPT !.pc = "mark", !.delivered = ok]]
  /\ UNCHANGED mail_queue
  /\ DrainFrame

\* lines 64-67 and 70-73: update({status, processed_at}).eq("id", row.id)
StatusAfter(delivered) == IF delivered THEN "sent" ELSE "error"

\* the orders after the job's status is written: the handler writes to
\* mail_queue only, and no trigger is defined on mail_queue
OrdersAfterCompensation(delivered, order_id) ==
  IF delivered THEN orders ELSE [orders EXCEPT ![order_id].status = "pending"]
OrdersAfter(delivered, order_id) == orders

\* lines 52-75: the try and the catch are inside the loop, which ends
\* after the last row of the batch
LoopEndsOnThrow(d) == dr[d].k = Len(dr[d].pendentes) \/ ~dr[d].delivered
LoopEnds(d) == dr[d].k = Len(dr[d].pendentes)

\* lines 64-77: the write of the job's status, the next turn of the loop
\* and the response after the last one
DrainMark(d) ==
  /\ dr[d].pc = "mark"
  /\ LET row == dr[d].pendentes[dr[d].k]
         last == LoopEnds(d)
     IN /\ mail_queue' = [mail_queue EXCEPT ![row] =
              [@ EXCEPT !.status = StatusAfter(dr[d].delivered),
                        !.processed_at = "now"]]
        /\ orders' = OrdersAfter(dr[d].delivered, mail_queue[row].order_id)
        /\ dr' = [dr EXCEPT ![d] =
              IF last
                THEN [@ EXCEPT !.pc = "done", !.delivered = FALSE,
                               !.response = "E-mails processados com sucesso!"]
                ELSE [@ EXCEPT !.pc = "send", !.k = @ + 1,
                               !.delivered = FALSE]]
  /\ UNCHANGED <<products, lock, stock0, customers, order_items, po, ss,
                 calls, into_paid, sends, export>>

\* ------------------------------------------------------------------------
\* export-order-csv: a read of the line items of an order under the row
\* level security of the caller
\* ------------------------------------------------------------------------
NoExport == [caller |-> NULL, order_id |-> 0, status |-> 0, rows |-> <<>>]

\* policy order_items_select_own: the row's order is of the customer whose
\* user_id is auth.uid()
VisibleItem(v_user, row) ==
  /\ row.order_id \in DOMAIN orders
  /\ IsOwner(v_user, orders[row.order_id].customer_id)

\* lines 117-120: the line items of the order the caller may see
ExportItems(v_user, orderId) ==
  SelectSeq(order_items,
            LAMBDA row : row.order_id = orderId /\ VisibleItem(v_user, row))

\* lines 127-134: a row of the file
Subtotal(it) == it.quantity * it.unit_price_cents

CsvRow(it) ==
  [sku |-> it.product_id, quantity |-> it.quantity,
   unit_price_cents |-> it.unit_price_cents, subtotal |-> Subtotal(it)]

\* lines 104-106 and 123-144: the status and the body of the response
ExportResponse(caller, orderId) ==
  IF caller = NULL THEN [status |-> 401, rows |-> <<>>]
  ELSE LET items == ExportItems(caller, orderId)
       IN IF Len(items) = 0 THEN [status |-> 404, rows |-> <<>>]
          ELSE [status |-> 200,
                rows |-> [k \in DOMAIN items |-> CsvRow(items[k])]]

ExportOrderCsv(caller, orderId) ==
  /\ export' = [caller |-> caller, order_id |-> orderId,
                status |-> ExportResponse(caller, orderId).status,
                rows |-> ExportResponse(caller, orderId).rows]
  /\ UNCHANGED <<products, lock, stock0, customers, orders, order_items,
                 mail_queue, po, ss, calls, into_paid, dr, sends>>

\* ------------------------------------------------------------------------
\* Initial states
\* ------------------------------------------------------------------------
InitCustomers ==
  [c \in CustomerIds |->
     IF c = "c1" THEN [user_id |-> "u1", email |-> "a@old", full_name |-> "Ana"]
                 ELSE [user_id |-> "u2", email |-> "b@old", full_name |-> "Bia"]]

InitCalls ==
  /\ lock = [p \in ProductIds |-> NoTx]
  /\ customers = InitCustomers
  /\ mail_queue = <<>>
  /\ po = [t \in Placers |-> IdlePlacer]
  /\ ss = [s \in Setters |-> IdleSetter]
  /\ calls = 0
  /\ dr = [d \in Drains |-> IdleDrain]
  /\ sends = <<>>
  /\ export = NoExport

\* The database after the migration and a seed of the two products
InitPlace ==
  /\ \E sA \in 0..MaxStock, sB \in 0..MaxStock, aB \in BOOLEAN :
       products = [p \in ProductIds |->
          IF p = "A" THEN [price_cents |-> 500, stock |-> sA, active |-> TRUE]
                     ELSE [price_cents |-> 300, stock |-> sB, active |-> aB]]
  /\ stock0 = [p \in ProductIds |-> products[p].stock]
  /\ orders = <<>>
  /\ order_items = <<>>
  /\ into_paid = <<>>
  /\ InitCalls

\* The same with product B active and fully stocked
InitConcurrent ==
  /\ InitPlace
  /\ products["B"].active /\ products["B"].stock = MaxStock

\* The database after customer c1 placed order 1 (2 x A, 1 x B) and
\* customer c2 placed order 2 (1 x A), both committed
PlacedOrders ==
  [o \in {1, 2} |->
     IF o = 1 THEN [customer_id |-> "c1", status |-> "pending", total_cents |-> 1300]
              ELSE [customer_id |-> "c2", status |-> "pending", total_cents |-> 500]]

PlacedItems ==
  << [order_id |-> 1, product_id |-> "A", quantity |-> 2, unit_price_cents |-> 500],
     [order_id |-> 1, product_id |-> "B", quantity |-> 1, unit_price_cents |-> 300],
     [order_id |-> 2, product_id |-> "A", quantity |-> 1, unit_price_cents |-> 500] >>

\* the first n of these orders exist
InitOrders(n) ==
  /\ orders = [o \in 1..n |-> PlacedOrders[o]]
  /\ order_items = SelectSeq(PlacedItems, LAMBDA r : r.order_id <= n)
  /\ products = [p \in ProductIds |->
        [price_cents |-> IF p = "A" THEN 500 ELSE 300,
         stock |-> MaxStock, active |-> TRUE]]
  /\ stock0 = [p \in ProductIds |-> MaxStock + QuantityOf(order_items, p)]
  /\ into_paid = [o \in 1..n |-> 0]
  /\ InitCalls

\* n orders were placed and paid: each has a pending job in mail_queue
InitQueue(n) ==
  /\ customers = InitCustomers
  /\ orders = [o \in 1..n |->
        [customer_id |-> "c1", status |-> "paid", total_cents |-> 500]]
  /\ order_items = [o \in 1..n |->
        [order_id |-> o, product_id |-> "A", quantity |-> 1,
         unit_price_cents |-> 500]]
  /\ products = [p \in ProductIds |->
        [price_cents |-> IF p = "A" THEN 500 ELSE 300,
         stock |-> MaxStock, active |-> TRUE]]
  /\ stock0 = [p \in ProductIds |-> MaxStock + QuantityOf(order_items, p)]
  /\ into_paid = [o \in 1..n |-> 1]
  /\ mail_queue = [o \in 1..n |-> ConfirmationJob(o, "c1")]
  /\ lock = [p \in ProductIds |-> NoTx]
  /\ po = [t \in Placers |-> IdlePlacer]
  /\ ss = [s \in Setters |-> IdleSetter]
  /\ calls = 0
  /\ dr = [d \in Drains |-> IdleDrain]
  /\ sends = [o \in 1..n |-> 0]
  /\ export = NoExport

InitOneOrder == InitOrders(1)
InitTwoOrders == InitOrders(2)

\* ------------------------------------------------------------------------
\* Specifications
\* ------------------------------------------------------------------------
ValidItems == [product_id : ProductIds, quantity : 1..MaxQty]
\* lists of no, one or two valid items
ValidItemLists ==
  {<<>>} \cup {<<a>> : a \in ValidItems} \cup {<<a, b>> : a, b \in ValidItems}

\* Two concurrent place_order calls.  The two calls are interchangeable, so
\* t1 is taken to be the one that begins first.
NextPlace ==
  \/ \E t \in Placers :
        /\ po[t].pc = "idle"
        /\ t = "t2" => po["t1"].pc # "idle"
        /\ \E u \in Callers, items \in ValidItemLists :
              PlaceOrderBegin(t, u, items)
  \/ \E t \in Placers : PlaceOrderRead(t)
  \/ \E t \in Placers : PlaceOrderUpdate(t)
  \/ \E t \in Placers : PlaceOrderCommit(t)
  \/ \E t \in Placers : PlaceOrderDeadlock(t)

SpecPlace == InitConcurrent /\ [][NextPlace]_vars

\* One place_order call with any item list
NextOne ==
  \/ /\ po["t1"].pc = "idle"
     /\ \E u \in Callers, items \in ItemLists : PlaceOrderBegin("t1", u, items)
  \/ PlaceOrderRead("t1")
  \/ PlaceOrderUpdate("t1")
  \/ PlaceOrderCommit("t1")

SpecOne == InitPlace /\ [][NextOne]_vars

\* Concurrent set_order_status calls on the order of customer c1
NextStatus ==
  \/ \E s \in Setters :
        /\ ss[s].pc \in {"idle", "done"} /\ calls < MaxCalls
        /\ \E u \in Callers, o \in DOMAIN orders \cup {MissingOrder},
              n \in order_status : SetOrderStatusBegin(s, u, o, n)
  \/ \E s \in Setters : SetOrderStatusUpdate(s)
  \/ \E c \in CustomerIds : \E contact \in Contacts(c) :
        UpdateCustomer(c, contact)

SpecStatus == InitOneOrder /\ [][NextStatus]_vars

\* Direct statements on the line items of two orders
NextItems ==
  \/ \E o \in DOMAIN orders, p \in ProductIds, q \in 1..MaxQty :
        InsertOrderItem(o, p, q)
  \/ \E k \in 1..MaxRows, o \in DOMAIN orders, q \in 1..MaxQty :
        UpdateOrderItem(k, o, q)
  \/ \E k \in 1..MaxRows : DeleteOrderItem(k)

SpecItems == InitTwoOrders /\ [][NextItems]_vars

\* one place_order call next to the maintenance of the catalogue
NextAdmin ==
  \/ /\ po["t1"].pc = "idle"
     /\ \E u \in Callers, items \in ValidItemLists :
          PlaceOrderBegin("t1", u, items)
  \/ PlaceOrderRead("t1")
  \/ PlaceOrderUpdate("t1")
  \/ PlaceOrderCommit("t1")
  \/ \E p \in ProductIds, price \in Prices : SetProductPrice(p, price)
  \/ \E p \in ProductIds : DeactivateProduct(p)

SpecAdmin == InitOneOrder /\ [][NextAdmin]_vars

\* invocations of the drain that may overlap
NextDrain ==
  \/ \E d \in Drains :
        /\ dr[d].pc \in {"idle", "done"}
        /\ \E batch \in Batches : DrainSelect(d, batch)
  \/ \E d \in Drains, ok \in BOOLEAN : DrainSend(d, ok)
  \/ \E d \in Drains : DrainMark(d)

SpecDrain == InitQueue(JobsAtStart) /\ [][NextDrain]_vars

\* the drain invoked again and again on a queue of one pending job more
\* than a batch takes; every invocation is begun and every await returns
Backlogged == BatchLimit + 1

NextBacklog ==
  \/ /\ dr["d1"].pc \in {"idle", "done"}
     /\ \E batch \in Batches : DrainSelect("d1", batch)
  \/ \E ok \in BOOLEAN : DrainSend("d1", ok)
  \/ DrainMark("d1")

SpecBacklog ==
  /\ InitQueue(Backlogged)
  /\ [][NextBacklog]_vars
  /\ WF_vars(\E batch \in Batches : DrainSelect("d1", batch))
  /\ WF_vars(\E ok \in BOOLEAN : DrainSend("d1", ok))
  /\ WF_vars(DrainMark("d1"))

\* requests to export-order-csv next to one place_order call and to
\* changes of the prices
NextExport ==
  \/ \E caller \in Callers, orderId \in DOMAIN orders \cup {MissingOrder} :
        ExportOrderCsv(caller, orderId)
  \/ /\ po["t1"].pc = "idle"
     /\ \E u \in Callers, items \in ValidItemLists :
          PlaceOrderBegin("t1", u, items)
  \/ PlaceOrderRead("t1")
  \/ PlaceOrderUpdate("t1")
  \/ PlaceOrderCommit("t1")
  \/ \E p \in ProductIds, price \in Prices : SetProductPrice(p, price)

SpecExport == InitTwoOrders /\ [][NextExport]_vars

\* set_order_status calls on two orders of two customers
NextTwoOrders ==
  \/ \E s \in Setters :
        /\ ss[s].pc \in {"idle", "done"} /\ calls < MaxCalls
        /\ \E u \in Callers, o \in DOMAIN orders \cup {MissingOrder},
              n \in order_status : SetOrderStatusBegin(s, u, o, n)
  \/ \E s \in Setters : SetOrderStatusUpdate(s)

SpecTwoOrders == InitTwoOrders /\ [][NextTwoOrders]_vars

Next == NextPlace \/ NextStatus \/ NextItems
Spec == InitPlace /\ [][Next]_vars

\* ------------------------------------------------------------------------
\* Properties
\* ------------------------------------------------------------------------
Done(t) == po[t].pc = "done"
Succeeded(t) == Done(t) /\ po[t].result = "ok"

\* C1: with concurrent place_order calls and no restock, each product's
\* stock is never negative, also in the uncommitted version a call holds
\* under the row lock, and equals its initial stock less the quantities of
\* the line items recorded for it; the quantities reserved never exceed the
\* initial stock.
StockInvariant ==
  \A p \in ProductIds :
    /\ products[p].stock >= 0
    /\ \A t \in Placers : CurrentStock(t, p) >= 0
    /\ products[p].stock = stock0[p] - QuantityOf(order_items, p)
    /\ QuantityOf(order_items, p) <= stock0[p]

\* two overlapping calls both reserved units of a product and sold it out
StockInvariantWitness ==
  \E p \in ProductIds :
    /\ stock0[p] = MaxStock /\ products[p].stock = 0
    /\ \A t \in Placers : Succeeded(t) /\ QuantityOf(po[t].rows, p) > 0
    /\ po["t2"].overlap

\* C2: every step of a place_order call other than its successful commit
\* leaves the orders, the line items and every product's stock as they
\* were, so a call that fails, at whatever item, has changed none of them.
FailureIsAtomic ==
  [][\A t \in Placers :
       (po'[t] # po[t] /\ po'[t].result # "ok")
         => /\ orders' = orders
            /\ order_items' = order_items
            /\ \A p \in ProductIds : products'[p].stock = products[p].stock]_vars

\* a call failed at its second item after it had decremented the stock for
\* its first, and the stock is what it was before the call
FailureIsAtomicWitness ==
  /\ Done("t1") /\ po["t1"].result = "InsufficientStock" /\ po["t1"].i = 2
  /\ po["t1"].items[1].product_id = "A"
  /\ products["A"].stock = stock0["A"] /\ stock0["A"] > 0
  /\ orders = <<>> /\ order_items = <<>>

\* C3: two place_order calls of resolved customers, each for a single item
\* of the same active product and each for a quantity the stock covers
\* while their sum exceeds it: when both have ended, exactly one succeeded,
\* the other failed with InsufficientStock, and the stock is the initial
\* stock less the quantity of the successful call.
SingleItemOf(t, p) ==
  /\ po[t].customer_id # NULL
  /\ Len(po[t].items) = 1
  /\ po[t].items[1].product_id = p

Contended(p) ==
  /\ products[p].active
  /\ \A t \in Placers : Done(t) /\ SingleItemOf(t, p)
                          /\ po[t].items[1].quantity <= stock0[p]
  /\ po["t1"].items[1].quantity + po["t2"].items[1].quantity > stock0[p]

ExactlyOneReserves ==
  \A p \in ProductIds :
    Contended(p) =>
      \E w \in Placers :
        /\ po[w].result = "ok"
        /\ \A l \in Placers \ {w} : po[l].result = "InsufficientStock"
        /\ products[p].stock = stock0[p] - po[w].items[1].quantity

\* the two calls overlapped in time and the stock was 1 with 1 requested by
\* each, or larger
ExactlyOneReservesWitness ==
  \E p \in ProductIds :
    /\ Contended(p) /\ po["t2"].overlap
    /\ po["t2"].result = "ok" /\ po["t1"].result = "InsufficientStock"
    /\ products[p].stock = 0

\* C4: every order's stored total is the sum of quantity * unit price
\* over its current line items, which is compute_order_total of the order,
\* after any insert, update or delete of a line item.
TotalMatchesItems ==
  \A o \in DOMAIN orders :
    orders[o].total_cents = compute_order_total(order_items, o)

\* The transition graph of the specification
Edges ==
  {<<"pending", "paid">>, <<"paid", "shipped">>, <<"shipped", "delivered">>,
   <<"pending", "canceled">>}

Ended(s) == ss[s].pc = "done"
OwnerCall(s) ==
  /\ ss[s].p_order_id \in DOMAIN orders
  /\ IsOwner(ss[s].v_user, orders[ss[s].p_order_id].customer_id)
OtherCall(s) ==
  /\ ss[s].p_order_id \in DOMAIN orders
  /\ ~IsOwner(ss[s].v_user, orders[ss[s].p_order_id].customer_id)
\* the step is the begin of a call of session s
Begins(s) == ss'[s] # ss[s] /\ ss'[s].call_no = calls'  /\ calls' # calls
\* the step is the UPDATE and commit of the call of session s
Updates(s) == ss[s].pc = "update" /\ ss'[s].pc = "done"

\* C5 as claimed: a call of a caller that is not the owner succeeds only
\* along an edge of the graph, and fails with InvalidTransition otherwise.
PrivilegedFollowsGraph ==
  \A s \in Setters :
    (Ended(s) /\ OtherCall(s)) =>
       IF <<ss[s].old_status, ss[s].p_next>> \in Edges
         THEN ss[s].result = "ok"
         ELSE ss[s].result = "InvalidTransition"

\* C5 as amended: a call of a caller that is not the owner, on an existing
\* order, succeeds for every pair of current and requested status and sets
\* the status to the requested one.
PrivilegedSetsAnyStatus ==
  [][\A s \in Setters :
       /\ (Begins(s) /\ OtherCall(s)') => ss'[s].pc = "update"
       /\ (Updates(s) /\ OtherCall(s))
            => /\ ss'[s].result = "ok"
               /\ orders'[ss[s].p_order_id].status = ss[s].p_next]_vars

\* a caller that is not the owner moved an order outside the graph
PrivilegedSetsAnyStatusWitness ==
  \E s \in Setters :
    /\ Ended(s) /\ OtherCall(s) /\ ss[s].result = "ok"
    /\ ss[s].old_status = "paid" /\ ss[s].p_next = "pending"
    /\ orders[ss[s].p_order_id].status = "pending"

\* C6: a call of the owner that requests another status than canceled, or
\* finds the order not pending, fails with Forbidden and changes neither an
\* order nor the mail queue; a call of the owner that requests canceled and
\* finds the order pending succeeds and sets the status to canceled.
OwnerOnlyCancelsPending ==
  [][\A s \in Setters :
       /\ (Begins(s) /\ OwnerCall(s)')
            => LET o == ss'[s].p_order_id
               IN IF ss'[s].p_next # "canceled" \/ orders[o].status # "pending"
                    THEN /\ ss'[s].pc = "done"
                         /\ ss'[s].result = "Forbidden"
                         /\ orders' = orders
                         /\ mail_queue' = mail_queue
                    ELSE ss'[s].pc = "update"
       /\ (Updates(s) /\ OwnerCall(s))
            => /\ ss'[s].result = "ok"
               /\ orders'[ss[s].p_order_id].status = "canceled"
               /\ mail_queue' = mail_queue]_vars

\* the owner was refused the cancellation of its paid order, the owner was
\* refused another status for its pending order, and the owner canceled
OwnerOnlyCancelsPendingWitness ==
  \E s \in Setters :
    /\ Ended(s) /\ OwnerCall(s) /\ ss[s].result = "Forbidden"
    /\ ss[s].p_next = "canceled" /\ ss[s].v_curr = "paid"
    /\ orders[ss[s].p_order_id].status = "paid"
    /\ Len(mail_queue) = 1

\* C7: every status change made by a call of the owner takes the order from
\* pending to canceled.
OwnerChangesOnlyPending ==
  \A s \in Setters :
    (Ended(s) /\ OwnerCall(s) /\ ss[s].result = "ok")
       => ss[s].old_status = "pending"

\* C8: a call of an authenticated customer that does not own the order
\* never changes the status of the order.
IsCustomer(v_user) == \E c \in CustomerIds : customers[c].user_id = v_user

OtherCustomerChangesNothing ==
  \A s \in Setters :
    (Ended(s) /\ OtherCall(s) /\ IsCustomer(ss[s].v_user))
       => ~(ss[s].result = "ok" /\ ss[s].old_status # ss[s].p_next)

\* C9: the number of jobs in the mail queue for an order is the number of
\* committed changes of its status into paid from another status, and a job
\* is enqueued with the e-mail and name the customer has at that moment.
RECURSIVE JobsFor(_, _)
JobsFor(queue, o) ==
  IF queue = <<>> THEN 0
  ELSE (IF Head(queue).order_id = o THEN 1 ELSE 0) + JobsFor(Tail(queue), o)

OneJobPerChangeIntoPaid ==
  /\ [](\A o \in DOMAIN orders : JobsFor(mail_queue, o) = into_paid[o])
  /\ [][mail_queue' # mail_queue =>
          /\ Len(mail_queue') = Len(mail_queue) + 1
          /\ \A k \in 1..Len(mail_queue) : mail_queue'[k] = mail_queue[k]
          /\ LET job == mail_queue'[Len(mail_queue')]
                 o == job.order_id
             IN /\ orders[o].status # "paid" /\ orders'[o].status = "paid"
                /\ job.to_email = customers[orders[o].customer_id].email
                /\ job.customer_name = customers[orders[o].customer_id].full_name
                /\ job.status = "pending"]_vars

\* an order was paid after its customer changed the e-mail, then updated
\* from paid to paid, and has one job, to the new address
OneJobPerChangeIntoPaidWitness ==
  \E s \in Setters :
    /\ Ended(s) /\ ss[s].result = "ok"
    /\ ss[s].old_status = "paid" /\ ss[s].p_next = "paid"
    /\ JobsFor(mail_queue, ss[s].p_order_id) = 1
    /\ Len(mail_queue) = 1 /\ mail_queue[1].to_email = "a@new"

\* C10 as claimed: the status of an order changes only along the edges of
\* the graph, so never backward and never out of canceled or delivered.
StatusFollowsGraph ==
  [][\A o \in DOMAIN orders :
       orders'[o].status # orders[o].status
         => <<orders[o].status, orders'[o].status>> \in Edges]_vars

\* C10 as amended: the status of an order changes only at the commit of a
\* set_order_status call on it, to the status the call requested, and a
\* call of the owner changes it to canceled only.
StatusChangesAsRequested ==
  [][\A o \in DOMAIN orders :
       orders'[o].status # orders[o].status
         => \E s \in Setters :
              /\ Updates(s) /\ ss[s].p_order_id = o
              /\ orders'[o].status = ss[s].p_next
              /\ OwnerCall(s) => orders'[o].status = "canceled"]_vars

\* a canceled order was moved to paid by a caller that is not its owner
StatusChangesAsRequestedWitness ==
  \E s \in Setters :
    /\ Ended(s) /\ OtherCall(s) /\ ss[s].result = "ok"
    /\ ss[s].old_status = "canceled" /\ ss[s].p_next = "paid"
    /\ orders[ss[s].p_order_id].status = "paid"

\* ------------------------------------------------------------------------
\* place_order: the order of the validations
\* ------------------------------------------------------------------------
Resolved(t) == po[t].customer_id # NULL
\* the positions of the items of the call whose quantity is not positive
InvalidAt(t) == {k \in DOMAIN po[t].items : po[t].items[k].quantity <= 0}
FirstInvalid(t) == CHOOSE k \in InvalidAt(t) : \A j \in InvalidAt(t) : k <= j
StockUntouched == \A p \in ProductIds : products[p].stock = stock0[p]

\* C11 as stated: a call of a resolved customer with some item of a
\* quantity that is not positive fails with InvalidQuantity, whatever its
\* other items, and no stock changes.
InvalidQuantityWins ==
  (Done("t1") /\ Resolved("t1") /\ InvalidAt("t1") # {})
    => po["t1"].result = "InvalidQuantity" /\ StockUntouched

\* C11 amended: the items are validated one by one in list order, each by
\* quantity, then product, then stock.  A call of a resolved customer with
\* some item of a quantity that is not positive always fails and changes no
\* stock; it fails at the first such item with InvalidQuantity, whatever
\* that item's product and stock, unless an earlier item fails first with
\* ProductUnavailable or InsufficientStock.
FirstViolationInListOrder ==
  (Done("t1") /\ Resolved("t1") /\ InvalidAt("t1") # {})
    => /\ StockUntouched
       /\ orders = <<>> /\ order_items = <<>>
       /\ po["t1"].i <= FirstInvalid("t1")
       /\ po["t1"].i = FirstInvalid("t1") <=> po["t1"].result = "InvalidQuantity"
       /\ po["t1"].i < FirstInvalid("t1")
            => po["t1"].result \in {"ProductUnavailable", "InsufficientStock"}

\* an item of quantity 0 for a missing product, after an item that reserved
\* stock, fails with InvalidQuantity and the reservation is undone
FirstViolationInListOrderWitness ==
  /\ Done("t1") /\ po["t1"].result = "InvalidQuantity" /\ po["t1"].i = 2
  /\ po["t1"].items[1].product_id = "A" /\ po["t1"].items[1].quantity = 1
  /\ po["t1"].items[2].product_id = MissingProduct
  /\ stock0["A"] >= 1 /\ StockUntouched

\* ------------------------------------------------------------------------
\* Prices of line items
\* ------------------------------------------------------------------------
PriceChanges == \E p \in ProductIds : products'[p].price_cents # products[p].price_cents
ReadsPrice(t) == po[t].pc = "read" /\ po'[t].pc = "update"
AddsItem(t) == Len(po'[t].rows) = Len(po[t].rows) + 1
Commits(t) == po[t].pc = "commit" /\ po'[t].pc = "done"

\* C12: a change of a product's price changes no line item and no order,
\* so no stored total; the stored total of every order is the sum over its
\* line items at their recorded unit prices; and the unit price a
\* place_order call records in a line item is the price the call read for
\* the item, also when the price changes before the item is inserted.
UnitPriceIsSnapshot ==
  /\ [](\A o \in DOMAIN orders :
          orders[o].total_cents = compute_order_total(order_items, o))
  /\ [][/\ PriceChanges => order_items' = order_items /\ orders' = orders
        /\ \A k \in DOMAIN order_items : order_items'[k] = order_items[k]
        /\ \A t \in Placers :
             /\ ReadsPrice(t) =>
                  po'[t].v_price =
                    products[po[t].items[po[t].i].product_id].price_cents
             /\ AddsItem(t) =>
                  po'[t].rows[Len(po'[t].rows)].unit_price_cents = po[t].v_price
             /\ Commits(t) => order_items' = order_items \o po[t].rows]_vars

\* the price of A changed between the read and the insert of a call that
\* has succeeded: its line item and the older one keep 500
UnitPriceIsSnapshotWitness ==
  /\ Succeeded("t1") /\ products["A"].price_cents = 300
  /\ orders[1].total_cents = 1300
  /\ order_items[1].unit_price_cents = 500
  /\ \E k \in DOMAIN order_items :
       /\ order_items[k].order_id = 2 /\ order_items[k].product_id = "A"
       /\ order_items[k].unit_price_cents = 500
       /\ orders[2].total_cents = 500 * order_items[k].quantity

\* ------------------------------------------------------------------------
\* The drain of mail_queue
\* ------------------------------------------------------------------------
Terminal(j) == mail_queue[j].status \in {"sent", "error"}

\* C13 as stated: once a job is sent or error no step of a drain changes
\* its status, also when invocations of the drain overlap.
TerminalStatusIsKept ==
  [][\A j \in DOMAIN mail_queue :
       Terminal(j) => mail_queue'[j].status = mail_queue[j].status]_vars

Marks(d) == dr[d].pc = "mark" /\ dr'[d] # dr[d]
Sends(d) == dr[d].pc = "send" /\ dr'[d] # dr[d]
Row(d) == dr[d].pendentes[dr[d].k]

\* C14: the step that follows the delivery attempt of a job writes sent if
\* the attempt succeeded and error if it failed, and writes no other job;
\* after a success and after a failure alike the invocation goes on with
\* the next job of its batch, and after the last one it answers with the
\* success message: an invocation never ends with a failure.
EachJobMarkedByItsOutcome ==
  /\ [](\A d \in Drains :
          dr[d].pc = "done" =>
            dr[d].response \in {"Nenhum e-mail pendente.",
                                "E-mails processados com sucesso!"})
  /\ [][\A d \in Drains :
         /\ Sends(d) => dr'[d].pc = "mark" /\ dr'[d].k = dr[d].k
                         /\ dr'[d].pendentes = dr[d].pendentes
         /\ Marks(d) =>
              /\ mail_queue'[Row(d)].status =
                    (IF dr[d].delivered THEN "sent" ELSE "error")
              /\ mail_queue'[Row(d)].processed_at # NULL
              /\ \A j \in DOMAIN mail_queue \ {Row(d)} :
                    mail_queue'[j] = mail_queue[j]
              /\ dr'[d].pendentes = dr[d].pendentes
              /\ IF dr[d].k < Len(dr[d].pendentes)
                   THEN dr'[d].pc = "send" /\ dr'[d].k = dr[d].k + 1
                   ELSE dr'[d].pc = "done"]_vars

\* one invocation alone took both jobs: the first delivery failed, the
\* second succeeded, and the invocation answered with the success message
EachJobMarkedByItsOutcomeWitness ==
  /\ dr["d1"].pc = "done" /\ dr["d1"].pendentes = <<1, 2>>
  /\ dr["d1"].response = "E-mails processados com sucesso!"
  /\ dr["d2"].pc = "idle"
  /\ mail_queue[1].status = "error" /\ mail_queue[2].status = "sent"

\* C15: a step of a drain changes nothing but the status and processed_at
\* of jobs: no order, line item, product, customer or count of changes into
\* paid changes, no job is added or removed and no other field of a job
\* changes, whether the delivery succeeded or failed.
DrainChangesOnlyJobs ==
  [][dr' # dr =>
       /\ orders' = orders /\ order_items' = order_items
       /\ products' = products /\ customers' = customers
       /\ into_paid' = into_paid
       /\ DOMAIN mail_queue' = DOMAIN mail_queue
       /\ \A j \in DOMAIN mail_queue :
            mail_queue'[j] = [mail_queue[j] EXCEPT
                                !.status = mail_queue'[j].status,
                                !.processed_at = mail_queue'[j].processed_at]]_vars

\* a delivery failed and the job's order is still paid
DrainChangesOnlyJobsWitness ==
  /\ mail_queue[1].status = "error" /\ mail_queue[1].order_id = 1
  /\ orders[1].status = "paid" /\ orders[1].total_cents = 500
  /\ into_paid[1] = 1 /\ products["A"].stock = MaxStock

\* C19 as stated: sendEmail is called at most once for a job, over any
\* interleaving of invocations of the drain.
SentAtMostOnce == \A j \in DOMAIN mail_queue : SendsOf(j) <= 1

\* C18: when the drain is invoked again and again and every delivery
\* attempt ends, with success or with failure, every job that is pending is
\* eventually sent or error, also when more jobs are pending than one
\* batch takes.
EveryPendingJobIsProcessed ==
  (\A j \in DOMAIN mail_queue : mail_queue[j].status = "pending")
    ~> [](\A j \in DOMAIN mail_queue : Terminal(j))

\* the queue held more pending jobs than a batch takes and every job is
\* now sent or error, one of them after a failed delivery
EveryPendingJobIsProcessedWitness ==
  /\ Len(mail_queue) > BatchLimit
  /\ \A j \in DOMAIN mail_queue : Terminal(j) /\ SendsOf(j) = 1
  /\ \E j \in DOMAIN mail_queue : mail_queue[j].status = "error"
  /\ dr["d1"].pc = "done"

\* ------------------------------------------------------------------------
\* place_order: products deactivated while a call runs
\* ------------------------------------------------------------------------
\* C17 as stated: a place_order call that succeeds has decremented the stock
\* of, and recorded a line item for, no product that was missing or
\* inactive when the UPDATE of lines 196-198 ran, also when the product is
\* deactivated between the call's read of its price and that UPDATE.
NeverReservesInactiveProduct ==
  \A t \in Placers : Succeeded(t) => ~po[t].stale

\* ------------------------------------------------------------------------
\* export-order-csv
\* ------------------------------------------------------------------------
Owns(caller, o) ==
  o \in DOMAIN orders /\ IsOwner(caller, orders[o].customer_id)
ItemsOf(o) == SelectSeq(order_items, LAMBDA row : row.order_id = o)

\* C16 as stated: a request of an authenticated caller for an order that
\* does not exist and one for an order of another customer get the same
\* response, the one of status 404 with no rows; a request for an order of
\* the caller gets status 200 with one row for each line item of the
\* order, whose subtotal is the item's quantity times its recorded unit
\* price.
ExportAnswersOwnerOnly ==
  [][export' # export =>
       LET c == export'.caller
           o == export'.order_id
       IN /\ (c # NULL /\ ~Owns(c, o)) =>
               export'.status = 404 /\ export'.rows = <<>>
          /\ (c # NULL /\ Owns(c, o)) =>
               /\ export'.status = 200
               /\ Len(export'.rows) = Len(ItemsOf(o))
               /\ \A k \in DOMAIN export'.rows :
                    /\ export'.rows[k].quantity = ItemsOf(o)[k].quantity
                    /\ export'.rows[k].subtotal =
                         ItemsOf(o)[k].quantity * ItemsOf(o)[k].unit_price_cents]_vars

\* ------------------------------------------------------------------------
\* place_order: orders without line items
\* ------------------------------------------------------------------------
\* C20 as stated: after a place_order call has succeeded every order has
\* at least one line item; a call with an empty list of items leaves no
\* order without line items and with total 0 behind.
EveryOrderHasItems ==
  (\E t \in Placers : Succeeded(t))
    => \A o \in DOMAIN orders : Len(ItemsOf(o)) >= 1

ChangedOrders == {o \in DOMAIN orders : orders'[o] # orders[o]}

\* C22: a step of a set_order_status call changes no product, so no stock
\* (a cancellation returns none), no line item, no customer, no order's
\* total or customer, and adds or removes no order; the step that begins a
\* call or fails it changes no order and no job; the UPDATE of the call
\* changes the status of no order but its target and adds at most one job,
\* for the target, exactly when the target's status changes into paid.
SetOrderStatusFrame ==
  [][\A s \in Setters : ss'[s] # ss[s] =>
       /\ products' = products /\ order_items' = order_items
       /\ customers' = customers /\ lock' = lock
       /\ DOMAIN orders' = DOMAIN orders
       /\ \A o \in DOMAIN orders :
            /\ orders'[o].total_cents = orders[o].total_cents
            /\ orders'[o].customer_id = orders[o].customer_id
       /\ IF Updates(s)
            THEN /\ ChangedOrders \subseteq {ss[s].p_order_id}
                 /\ LET o == ss[s].p_order_id
                        paid == /\ orders'[o].status = "paid"
                                /\ orders[o].status # "paid"
                    IN IF paid
                         THEN /\ Len(mail_queue') = Len(mail_queue) + 1
                              /\ SubSeq(mail_queue', 1, Len(mail_queue)) = mail_queue
                              /\ mail_queue'[Len(mail_queue')].order_id = o
                         ELSE mail_queue' = mail_queue
            ELSE orders' = orders /\ mail_queue' = mail_queue]_vars

\* the owner canceled order 1: the stock its items reserved is not
\* returned, its items and total are kept and order 2 is as it was
SetOrderStatusFrameWitness ==
  /\ orders[1].status = "canceled" /\ orders[1].total_cents = 1300
  /\ \E s \in Setters : /\ Ended(s) /\ ss[s].result = "ok"
                          /\ ss[s].v_user = "u1" /\ ss[s].p_order_id = 1
  /\ order_items = PlacedItems
  /\ \A p \in ProductIds : products[p].stock = MaxStock
  /\ stock0["A"] = MaxStock + 3
  /\ orders[2] = PlacedOrders[2]

==========================================================================
